---------------------------- MODULE Spec2Model ----------------------------
(* Model of the connection registry and delivery engine of                *)
(* backend/app/services/websocket_manager.py (class ConnectionManager).   *)
(* A websocket is an integer handle; a dictionary is a function whose     *)
(* DOMAIN is the set of keys present.                                     *)
EXTENDS Integers, FiniteSets, Sequences, TLC

(* ----------------------------- bounds --------------------------------- *)
MaxConn == 2
MaxTask == 1

Conns == 1..MaxConn
Users == {0, 7}
Roles == {"traffic_control", "viewer"}
Channels == {"sensor_updates", "sensor_42"}
Tasks == 1..MaxTask

VARIABLES
    active_connections,     \* user_id -> set of websockets
    role_connections,       \* role -> set of websockets
    channel_subscriptions,  \* channel -> set of websockets
    ws_to_user,             \* websocket -> user_id
    ws_to_role,             \* websocket -> role
    task,                   \* the delivery coroutines, each suspended in a send or not running
    accepted,               \* websockets the endpoint has handed to connect
    stalled,                \* peers whose pending send never completes
    lastOp,                 \* observer: the registry call the last step made
    pre,                    \* observer: the registry before that call
    call,                   \* the publisher or handler call each coroutine is running
    alerts,                 \* storage: alert_id -> the alert's status and stamps
    actions,                \* storage: the alert action records, in insertion order
    steady                  \* observer: per call, the websockets whose registry
                            \* membership has not changed since the call began

regvars == <<active_connections, role_connections, channel_subscriptions,
             ws_to_user, ws_to_role>>
vars == <<active_connections, role_connections, channel_subscriptions,
          ws_to_user, ws_to_role, task, accepted, stalled, lastOp, pre,
          call, alerts, actions, steady>>
svcvars == <<call, alerts, actions, steady>>

(* ------------------------- dictionaries -------------------------------- *)
EmptyDict == [k \in {} |-> {}]

Del(d, k) == [x \in DOMAIN d \ {k} |-> d[x]]

Put(d, k, v) == [x \in DOMAIN d \cup {k} |-> IF x = k THEN v ELSE d[x]]

\* d.setdefault(k, set()).add(ws): lines 31-33, 36-38, 155-157
AddTo(d, k, ws) == Put(d, k, (IF k \in DOMAIN d THEN d[k] ELSE {}) \cup {ws})

\* d[k].discard(ws); if not d[k]: del d[k]   (k is known to be a key)
DiscardAndPrune(d, k, ws) ==
    IF d[k] \ {ws} = {} THEN Del(d, k) ELSE [d EXCEPT ![k] = d[k] \ {ws}]

(* --------------------------- the registry ------------------------------ *)
reg == [active_connections    |-> active_connections,
        role_connections      |-> role_connections,
        channel_subscriptions |-> channel_subscriptions,
        ws_to_user            |-> ws_to_user,
        ws_to_role            |-> ws_to_role]

EmptyRegistry == [active_connections    |-> EmptyDict,
                  role_connections      |-> EmptyDict,
                  channel_subscriptions |-> EmptyDict,
                  ws_to_user            |-> EmptyDict,
                  ws_to_role            |-> EmptyDict]

\* connect, lines 30-42: the index insertions after accept() has returned
connect_insert(r, ws, user_id, role) ==
    [active_connections    |-> AddTo(r.active_connections, user_id, ws),
     role_connections      |-> AddTo(r.role_connections, role, ws),
     channel_subscriptions |-> r.channel_subscriptions,
     ws_to_user            |-> Put(r.ws_to_user, ws, user_id),
     ws_to_role            |-> Put(r.ws_to_role, ws, role)]

\* "if user_id and user_id in self.active_connections": None and 0 are falsy
disconnect_user(r, ws) ==
    IF /\ ws \in DOMAIN r.ws_to_user
       /\ r.ws_to_user[ws] # 0
       /\ r.ws_to_user[ws] \in DOMAIN r.active_connections
    THEN DiscardAndPrune(r.active_connections, r.ws_to_user[ws], ws)
    ELSE r.active_connections

\* "if role and role in self.role_connections": None and "" are falsy
disconnect_role(r, ws) ==
    IF /\ ws \in DOMAIN r.ws_to_role
       /\ r.ws_to_role[ws] # ""
       /\ r.ws_to_role[ws] \in DOMAIN r.role_connections
    THEN DiscardAndPrune(r.role_connections, r.ws_to_role[ws], ws)
    ELSE r.role_connections

\* disconnect_channels with a "del self.channel_subscriptions[channel]" that
\* does not test the set for emptiness
disconnect_channels_del_untested(r, ws) ==
    [ch \in {} |-> r.channel_subscriptions[ch] \ {ws}]

\* "for channel, websockets in ...items(): websockets.discard(websocket)"
disconnect_channels(r, ws) ==
    [ch \in DOMAIN r.channel_subscriptions |-> r.channel_subscriptions[ch] \ {ws}]

disconnect(r, ws) ==
    [active_connections    |-> disconnect_user(r, ws),
     role_connections      |-> disconnect_role(r, ws),
     channel_subscriptions |-> disconnect_channels(r, ws),
     ws_to_user            |-> Del(r.ws_to_user, ws),
     ws_to_role            |-> Del(r.ws_to_role, ws)]

subscribe_to_channel(r, ws, channel) ==
    [r EXCEPT !.channel_subscriptions = AddTo(r.channel_subscriptions, channel, ws)]

\* unsubscribe_from_channel that deletes the entry of a last subscriber and
\* never discards from a set that has other subscribers
unsubscribe_last_only(r, ws, channel) ==
    IF channel \in DOMAIN r.channel_subscriptions
          /\ r.channel_subscriptions[channel] = {ws}
    THEN [r EXCEPT !.channel_subscriptions = Del(r.channel_subscriptions, channel)]
    ELSE r

unsubscribe_from_channel(r, ws, channel) ==
    IF channel \in DOMAIN r.channel_subscriptions
    THEN [r EXCEPT !.channel_subscriptions =
                       DiscardAndPrune(r.channel_subscriptions, channel, ws)]
    ELSE r


RECURSIVE DisconnectAll(_, _)
\* "for ws in disconnected: self.disconnect(ws)"
DisconnectAll(r, S) ==
    IF S = {} THEN r
    ELSE LET ws == CHOOSE x \in S : TRUE
         IN  DisconnectAll(disconnect(r, ws), S \ {ws})

RECURSIVE ConnectAll(_, _, _)
\* the registry after connect has registered every websocket of S, ws as the
\* user and role id[ws]
ConnectAll(r, S, id) ==
    IF S = {} THEN r
    ELSE LET ws == CHOOSE x \in S : TRUE
         IN  ConnectAll(connect_insert(r, ws, id[ws][1], id[ws][2]), S \ {ws}, id)

(* ------------------------ snapshots (selectors) ------------------------ *)
\* "self.active_connections[user_id].copy()" under "if user_id in ..."
snapshot_user(r, user_id) ==
    IF user_id \in DOMAIN r.active_connections
    THEN r.active_connections[user_id] ELSE {}

snapshot_role(r, role) ==
    IF role \in DOMAIN r.role_connections
    THEN r.role_connections[role] ELSE {}

snapshot_channel(r, channel) ==
    IF channel \in DOMAIN r.channel_subscriptions
    THEN r.channel_subscriptions[channel] ELSE {}

\* "all_websockets.update(user_connections)" over every user's set
snapshot_all(r) ==
    UNION {r.active_connections[u] : u \in DOMAIN r.active_connections}

(* --------------------------- delivery tasks ---------------------------- *)
(* A delivery coroutine (send_personal_message, send_to_user, send_to_role,   *)
(* send_to_channel, broadcast) runs without interruption from one await to    *)
(* the next; its only await is "await websocket.send_text(...)". A step of    *)
(* the model is one such uninterrupted run.                                   *)
\* a handle that is no websocket
NoWs == MaxConn + 1

NoAttempts == [c \in Conns |-> 0]

\* a call that has not begun: no publisher or handler is running on the coroutine
NoCall == [pc |-> "idle", name |-> "none", origin |-> NoWs, arg |-> "", rest |-> <<>>,
           msg |-> [type |-> "", text |-> ""], out |-> <<>>]

IdleTask == [pc |-> "idle", kind |-> "none", snap |-> {}, pending |-> {},
             cur |-> NoWs, delivered |-> {}, failed |-> {},
             attempts |-> NoAttempts]

\* the coroutine reaches "await websocket.send_text(...)" for ws
await_send(tk, ws) ==
    [tk EXCEPT !.pc = "sending", !.cur = ws, !.pending = tk.pending \ {ws},
               !.attempts = [tk.attempts EXCEPT ![ws] = tk.attempts[ws] + 1]]

returned(tk) == [tk EXCEPT !.pc = "done", !.cur = NoWs, !.pending = {}]

SetReg(r) ==
    /\ active_connections' = r.active_connections
    /\ role_connections' = r.role_connections
    /\ channel_subscriptions' = r.channel_subscriptions
    /\ ws_to_user' = r.ws_to_user
    /\ ws_to_role' = r.ws_to_role

CanStart(t) == task[t].pc \in {"idle", "done"}

\* a delivery over the copy S begins: with no websocket in it the loop body never
\* runs and the call returns without suspending, else the first send is awaited
\* (a set is iterated in an order the program does not choose)
Begin(t, kind, S) ==
    LET tk == [IdleTask EXCEPT !.kind = kind, !.snap = S, !.pending = S]
    IN  IF S = {}
        THEN task' = [task EXCEPT ![t] = returned(tk)]
        ELSE \E ws \in S : task' = [task EXCEPT ![t] = await_send(tk, ws)]

Init ==
    /\ active_connections = EmptyDict
    /\ role_connections = EmptyDict
    /\ channel_subscriptions = EmptyDict
    /\ ws_to_user = EmptyDict
    /\ ws_to_role = EmptyDict
    /\ task = [t \in Tasks |-> IdleTask]
    /\ accepted = {}
    /\ stalled = {}
    /\ lastOp = [op |-> "init", ws |-> NoWs, channel |-> "", twice |-> FALSE]
    /\ pre = EmptyRegistry
    /\ call = [t \in Tasks |-> NoCall]
    /\ alerts = EmptyDict
    /\ actions = <<>>
    /\ steady = [t \in Tasks |-> {}]

\* connect, lines 26-53: accept() has returned, the indexes are filled and the
\* coroutine is suspended in the send of "connection_status" (a raising accept()
\* leaves the registry as it is)
Connect(t, ws, user_id, role) ==
    /\ CanStart(t)
    /\ SetReg(connect_insert(reg, ws, user_id, role))
    /\ Begin(t, "personal", {ws})
    /\ accepted' = accepted \cup {ws}
    /\ UNCHANGED stalled

\* disconnect, lines 55-80
Disconnect(ws) ==
    /\ SetReg(disconnect(reg, ws))
    /\ UNCHANGED <<task, accepted, stalled>>

\* subscribe_to_channel, lines 153-158
Subscribe(ws, channel) ==
    /\ SetReg(subscribe_to_channel(reg, ws, channel))
    /\ UNCHANGED <<task, accepted, stalled>>

\* unsubscribe_from_channel, lines 160-166
Unsubscribe(ws, channel) ==
    /\ SetReg(unsubscribe_from_channel(reg, ws, channel))
    /\ UNCHANGED <<task, accepted, stalled>>

\* send_to_user, lines 90-96, up to its first await
SendToUser(t, user_id) ==
    /\ CanStart(t)
    /\ Begin(t, "user", snapshot_user(reg, user_id))
    /\ UNCHANGED <<regvars, accepted, stalled>>

\* send_to_role, lines 105-111, up to its first await
SendToRole(t, role) ==
    /\ CanStart(t)
    /\ Begin(t, "role", snapshot_role(reg, role))
    /\ UNCHANGED <<regvars, accepted, stalled>>

\* send_to_channel, lines 120-126, up to its first await
SendToChannel(t, channel) ==
    /\ CanStart(t)
    /\ Begin(t, "channel", snapshot_channel(reg, channel))
    /\ UNCHANGED <<regvars, accepted, stalled>>

\* broadcast, lines 135-144, up to its first await
Broadcast(t) ==
    /\ CanStart(t)
    /\ Begin(t, "broadcast", snapshot_all(reg))
    /\ UNCHANGED <<regvars, accepted, stalled>>

\* the coroutine's record when the awaited send_text has returned (ok) or raised:
\* "disconnected.add(websocket)" in the except clause
after_send(tk, ok) ==
    [tk EXCEPT !.delivered = IF ok THEN tk.delivered \cup {tk.cur} ELSE tk.delivered,
               !.failed = IF ok THEN tk.failed ELSE tk.failed \cup {tk.cur},
               !.cur = NoWs]

\* the awaited send_text returns (ok) or raises: the coroutine runs on to its next
\* await (the next websocket of the copy) or, the copy exhausted, through the
\* clean-up loop to its return. send_personal_message has the one websocket and
\* disconnects it in its except clause. The send to a stalled peer never completes.
SendDone(t, ok) ==
    LET tk == task[t]
        ws == tk.cur
        nx == after_send(tk, ok)
    IN  /\ tk.pc = "sending"
        /\ ws \notin stalled
        /\ IF nx.pending # {}
           THEN /\ \E w \in nx.pending : task' = [task EXCEPT ![t] = await_send(nx, w)]
                /\ UNCHANGED regvars
           ELSE /\ task' = [task EXCEPT ![t] = returned(nx)]
                /\ SetReg(DisconnectAll(reg, nx.failed))
        /\ UNCHANGED <<accepted, stalled>>

\* the peer of ws stops reading: from now on no send to it completes
Stall(ws) ==
    /\ ws \notin stalled
    /\ stalled' = stalled \cup {ws}
    /\ UNCHANGED <<regvars, task, accepted>>

(* ------------------------------ observer ------------------------------- *)
\* twice: a subscribe that found ws already subscribed; carried over by the
\* unsubscribe of the same pair that directly follows it
Log(op, ws, channel) ==
    /\ lastOp' = [op |-> op, ws |-> ws, channel |-> channel,
                  twice |-> CASE op = "subscribe" -> ws \in snapshot_channel(reg, channel)
                              [] op = "unsubscribe" -> /\ lastOp.op = "subscribe"
                                                       /\ lastOp.ws = ws
                                                       /\ lastOp.channel = channel
                                                       /\ lastOp.twice
                              [] OTHER -> FALSE]
    /\ pre' = reg
    /\ UNCHANGED svcvars

\* no observer, and no publisher or handler call
Quiet == UNCHANGED <<lastOp, pre>> /\ UNCHANGED svcvars

(* --------------------------- specifications ---------------------------- *)
(* The endpoint hands a websocket to connect once, when it is opened, and    *)
(* dispatches the messages of accepted websockets only.                      *)

\* the registry and the delivery engine, all coroutines interleaved
Next ==
    \/ \E t \in Tasks, ws \in Conns \ accepted, u \in Users, r \in Roles :
           Connect(t, ws, u, r) /\ Quiet
    \/ \E ws \in Conns : Disconnect(ws) /\ Quiet
    \/ \E ws \in accepted, ch \in Channels : Subscribe(ws, ch) /\ Quiet
    \/ \E ws \in accepted, ch \in Channels : Unsubscribe(ws, ch) /\ Quiet
    \/ \E t \in Tasks, u \in Users : SendToUser(t, u) /\ Quiet
    \/ \E t \in Tasks, r \in Roles : SendToRole(t, r) /\ Quiet
    \/ \E t \in Tasks, ch \in Channels : SendToChannel(t, ch) /\ Quiet
    \/ \E t \in Tasks : Broadcast(t) /\ Quiet
    \/ \E t \in Tasks, ok \in BOOLEAN : SendDone(t, ok) /\ Quiet

Spec == Init /\ [][Next]_vars

\* the registry calls, each observed with the registry it found
NextApi ==
    \/ \E t \in Tasks, ws \in Conns \ accepted, u \in Users, r \in Roles :
           Connect(t, ws, u, r) /\ Log("connect", ws, "")
    \/ \E ws \in Conns : Disconnect(ws) /\ Log("disconnect", ws, "")
    \/ \E ws \in accepted, ch \in Channels : Subscribe(ws, ch) /\ Log("subscribe", ws, ch)
    \/ \E ws \in accepted, ch \in Channels : Unsubscribe(ws, ch) /\ Log("unsubscribe", ws, ch)
    \/ \E t \in Tasks, ch \in Channels : SendToChannel(t, ch) /\ Log("send_to_channel", NoWs, ch)
    \/ \E t \in Tasks, ok \in BOOLEAN : SendDone(t, ok) /\ Log("send_done", task[t].cur, "")

SpecApi == Init /\ [][NextApi]_vars

\* the synchronous registry calls on a registry in which some websockets have
\* been connected, observed as in SpecApi
InitRegistered ==
    /\ \E S \in SUBSET Conns : \E id \in [S -> Users \X Roles] :
           /\ accepted = S
           /\ active_connections = ConnectAll(EmptyRegistry, S, id).active_connections
           /\ role_connections = ConnectAll(EmptyRegistry, S, id).role_connections
           /\ ws_to_user = ConnectAll(EmptyRegistry, S, id).ws_to_user
           /\ ws_to_role = ConnectAll(EmptyRegistry, S, id).ws_to_role
    /\ channel_subscriptions = EmptyDict
    /\ task = [t \in Tasks |-> IdleTask]
    /\ stalled = {}
    /\ lastOp = [op |-> "init", ws |-> NoWs, channel |-> "", twice |-> FALSE]
    /\ pre = EmptyRegistry
    /\ call = [t \in Tasks |-> NoCall]
    /\ alerts = EmptyDict
    /\ actions = <<>>
    /\ steady = [t \in Tasks |-> {}]

NextRegistry ==
    \/ \E ws \in Conns : Disconnect(ws) /\ Log("disconnect", ws, "")
    \/ \E ws \in accepted, ch \in Channels : Subscribe(ws, ch) /\ Log("subscribe", ws, ch)
    \/ \E ws \in accepted, ch \in Channels : Unsubscribe(ws, ch) /\ Log("unsubscribe", ws, ch)

SpecRegistry == InitRegistered /\ [][NextRegistry]_vars

\* connect called again for a websocket the registry already holds
NextReconnect ==
    \/ \E t \in Tasks, ws \in Conns, u \in Users, r \in Roles :
           Connect(t, ws, u, r) /\ Log("connect", ws, "")
    \/ \E ws \in Conns : Disconnect(ws) /\ Log("disconnect", ws, "")
    \/ \E t \in Tasks, ok \in BOOLEAN : SendDone(t, ok) /\ Log("send_done", task[t].cur, "")

SpecReconnect == Init /\ [][NextReconnect]_vars

\* deliveries to peers that may stall; the transport completes every send to a
\* peer that keeps reading
NextStall ==
    \/ \E t \in Tasks, ws \in Conns \ accepted, u \in Users, r \in Roles :
           Connect(t, ws, u, r) /\ Quiet
    \/ \E ws \in Conns : Stall(ws) /\ Quiet
    \/ \E t \in Tasks : Broadcast(t) /\ Quiet
    \/ \E t \in Tasks, ok \in BOOLEAN : SendDone(t, ok) /\ Quiet

SpecStall ==
    /\ Init
    /\ [][NextStall]_vars
    /\ \A t \in Tasks : WF_vars(\E ok \in BOOLEAN : SendDone(t, ok) /\ Quiet)

(* ------------------------- registry predicates ------------------------- *)
UsersOf(r, ws) == {u \in DOMAIN r.active_connections : ws \in r.active_connections[u]}

RolesOf(r, ws) == {x \in DOMAIN r.role_connections : ws \in r.role_connections[x]}

ChannelsOf(r, ws) ==
    {ch \in DOMAIN r.channel_subscriptions : ws \in r.channel_subscriptions[ch]}

\* ws is in no index set
InNoIndex(r, ws) == UsersOf(r, ws) = {} /\ RolesOf(r, ws) = {} /\ ChannelsOf(r, ws) = {}

\* the registry holds no mapping and no subscription of ws
Unregistered(r, ws) ==
    /\ ws \notin DOMAIN r.ws_to_user
    /\ ws \notin DOMAIN r.ws_to_role
    /\ ChannelsOf(r, ws) = {}

\* all the registry records about ws
Membership(r, ws) ==
    [users    |-> UsersOf(r, ws),
     roles    |-> RolesOf(r, ws),
     channels |-> ChannelsOf(r, ws),
     user     |-> IF ws \in DOMAIN r.ws_to_user THEN {r.ws_to_user[ws]} ELSE {},
     role     |-> IF ws \in DOMAIN r.ws_to_role THEN {r.ws_to_role[ws]} ELSE {}]

IndexesConsistent(r) ==
    \A ws \in Conns :
        /\ \A u \in Users :
               (u \in UsersOf(r, ws)) <=> (ws \in DOMAIN r.ws_to_user /\ r.ws_to_user[ws] = u)
        /\ \A x \in Roles :
               (x \in RolesOf(r, ws)) <=> (ws \in DOMAIN r.ws_to_role /\ r.ws_to_role[ws] = x)

\* a step in which the delivery of task t returns to its caller
Returns(t) == task[t].pc = "sending" /\ task'[t].pc = "done"

FanOut == {"user", "role", "channel", "broadcast"}

(* ----------------------- publishers and handlers ---------------------- *)
(* A publisher (broadcast_new_alert, broadcast_sensor_update) or a handler    *)
(* of WebSocketService awaits one delivery after the other. call[t] is the    *)
(* call coroutine t is running: the deliveries still to make (rest), the      *)
(* message of the delivery under way (msg) and every send_text awaited so     *)
(* far with its outcome (out).                                                *)

\* one delivery: the manager method called, its selector and its message
Step(kind, key, ws, type, text) ==
    [kind |-> kind, key |-> key, ws |-> ws, msg |-> [type |-> type, text |-> text]]

\* the copy the manager method of a step iterates
Sel(r, st) ==
    CASE st.kind = "broadcast" -> snapshot_all(r)
      [] st.kind = "role"      -> snapshot_role(r, st.key)
      [] st.kind = "channel"   -> snapshot_channel(r, st.key)
      [] st.kind = "personal"  -> {st.ws}

RECURSIVE Skip(_, _)
\* a delivery over an empty copy returns without suspending and without touching
\* the registry: the caller runs on to its next delivery
Skip(r, rest) ==
    IF rest = <<>> \/ Sel(r, Head(rest)) # {} THEN rest ELSE Skip(r, Tail(rest))

NewCall(name, origin, arg, rest) ==
    [NoCall EXCEPT !.pc = "running", !.name = name, !.origin = origin,
                   !.arg = arg, !.rest = rest]

Awaited(ws, msg) == [ws |-> ws, msg |-> msg, ok |-> "pending"]

\* the call c of coroutine t runs on over the registry r to its next await, or to
\* its return, where it leaves the delivery record tk
Proceed(t, r, c, tk) ==
    LET rest == Skip(r, c.rest)
    IN  IF rest = <<>>
        THEN /\ task' = [task EXCEPT ![t] = tk]
             /\ call' = [call EXCEPT ![t] = [c EXCEPT !.pc = "done", !.rest = <<>>]]
        ELSE /\ Begin(t, Head(rest).kind, Sel(r, Head(rest)))
             /\ call' = [call EXCEPT ![t] =
                            [c EXCEPT !.rest = Tail(rest), !.msg = Head(rest).msg,
                                      !.out = Append(c.out, Awaited(task'[t].cur,
                                                                   Head(rest).msg))]]

\* SendDone inside a publisher or handler: after the clean-up loop of the
\* delivery, the caller runs on
Continue(t, ok) ==
    LET tk == task[t]
        nx == after_send(tk, ok)
        c  == call[t]
        c1 == [c EXCEPT !.out[Len(c.out)].ok = IF ok THEN "ok" ELSE "failed"]
    IN  /\ tk.pc = "sending"
        /\ c.pc = "running"
        /\ tk.cur \notin stalled
        /\ IF nx.pending # {}
           THEN /\ \E w \in nx.pending : task' = [task EXCEPT ![t] = await_send(nx, w)]
                /\ call' = [call EXCEPT ![t] =
                               [c1 EXCEPT !.out = Append(c1.out, Awaited(task'[t].cur, c.msg))]]
                /\ UNCHANGED regvars
           ELSE /\ SetReg(DisconnectAll(reg, nx.failed))
                /\ Proceed(t, DisconnectAll(reg, nx.failed), c1, returned(nx))
        /\ UNCHANGED <<accepted, stalled, alerts, actions>>

(* storage (models.Alert, models.AlertAction behind self.db): an alert is    *)
(* found by its alert_id and carries its status and the users who             *)
(* acknowledged and resolved it ({} for None)                                 *)
AlertIds == {"ALERT-TRAFFIC-1"}

AlertStatus == {"active", "acknowledged", "resolved", "dismissed"}

NewAlert(status) == [status |-> status, acknowledged_by |-> {}, resolved_by |-> {}]

\* f"sensor_{metric.sensor_id}"
sensor_channel(sensor_id) == "sensor_" \o ToString(sensor_id)

Sensors == {42, 99}

\* broadcast_sensor_update with a second delivery to every connection
broadcast_sensor_update_to_all(sensor_id) ==
    << Step("channel", "sensor_updates", NoWs, "sensor_update", ToString(sensor_id)),
       Step("broadcast", "", NoWs, "sensor_update", ToString(sensor_id)) >>

\* broadcast_sensor_update, lines 551-553: its two send_to_channel calls
broadcast_sensor_update(sensor_id) ==
    << Step("channel", "sensor_updates", NoWs, "sensor_update", ToString(sensor_id)),
       Step("channel", sensor_channel(sensor_id), NoWs, "sensor_update",
            ToString(sensor_id)) >>

Categories == {"traffic", "environment", "utility", "security"}

\* the if / elif chain of broadcast_new_alert, lines 531-536
role_of_category(category) ==
    CASE category = "traffic"     -> <<"traffic_control">>
      [] category = "environment" -> <<"environment_officer">>
      [] category = "utility"     -> <<"utility_officer">>
      [] OTHER                    -> <<>>

\* broadcast_new_alert that broadcasts only an alert no role is responsible for
broadcast_new_alert_role_or_all(alert_id, category) ==
    IF role_of_category(category) = <<>>
    THEN << Step("broadcast", "", NoWs, "new_alert", alert_id) >>
    ELSE << Step("role", role_of_category(category)[1], NoWs, "new_alert", alert_id) >>

\* broadcast_new_alert, lines 528-536: broadcast, then send_to_role
broadcast_new_alert(alert_id, category) ==
    << Step("broadcast", "", NoWs, "new_alert", alert_id) >>
    \o [i \in 1..Len(role_of_category(category)) |->
           Step("role", role_of_category(category)[i], NoWs, "new_alert", alert_id)]

\* a metric is ingested: broadcast_sensor_update runs to its first await
PublishSensorUpdate(t, sensor_id) ==
    /\ CanStart(t)
    /\ Proceed(t, reg, NewCall("broadcast_sensor_update", NoWs, ToString(sensor_id),
                               broadcast_sensor_update(sensor_id)), task[t])
    /\ UNCHANGED <<regvars, accepted, stalled, alerts, actions>>

\* an alert is created: broadcast_new_alert runs to its first await
PublishNewAlert(t, alert_id, category) ==
    /\ CanStart(t)
    /\ Proceed(t, reg, NewCall("broadcast_new_alert", NoWs, category,
                               broadcast_new_alert(alert_id, category)), task[t])
    /\ UNCHANGED <<regvars, accepted, stalled, alerts, actions>>

(* ----------------------------- dispatcher ------------------------------ *)
(* An inbound message is the dictionary decoded from a text frame: its type   *)
(* ("None" when the key is missing), the fields its handler reads, and the    *)
(* fault it meets: "payload" (a field of the wrong shape: the list of         *)
(* channels ends in a value that cannot be a dictionary key, parameters is    *)
(* no dictionary), "query" (self.db.query raises) or "commit"                 *)
(* (self.db.commit raises).                                                   *)
MaxActions == 2

Msg(type, channels, alert_id, data_type, fault) ==
    [type |-> type, channels |-> channels, alert_id |-> alert_id,
     data_type |-> data_type, fault |-> fault]

ChannelLists == {<<>>, <<"sensor_42">>}

UnknownAlertId == "ALERT-TRAFFIC-0"

DataTypes == {"sensor_data", "alerts", "system_stats", "analytics"}

Commands == {"subscribe", "unsubscribe", "acknowledge_alert", "resolve_alert",
             "request_data", "ping"}

LifecycleMessages ==
    {Msg(ty, <<>>, a, "", f) : ty \in {"acknowledge_alert", "resolve_alert"},
                               a \in AlertIds \cup {UnknownAlertId},
                               f \in {"none", "query", "commit"}}

Messages ==
    {Msg(ty, cs, "", "", f) : ty \in {"subscribe", "unsubscribe"}, cs \in ChannelLists,
                              f \in {"none", "payload"}}
    \cup LifecycleMessages
    \cup {Msg("request_data", <<>>, "", d, f) : d \in {"sensor_data", "alerts"},
                                                f \in {"none", "payload", "query"}}
    \cup {Msg("request_data", <<>>, "", d, "none") :
              d \in {"system_stats", "analytics", "weather", "None"}}
    \cup {Msg(ty, <<>>, "", "", "none") : ty \in {"ping", "reboot", "None"}}

\* what a handler has done when it returns or raises: the registry and the storage
\* it leaves, whether it raised, and the deliveries it makes if it did not
Handled(r, al, ac, raised, rest) ==
    [reg |-> r, alerts |-> al, actions |-> ac, raised |-> raised, rest |-> rest]

Personal(ws, type, text) == Step("personal", "", ws, type, text)

RECURSIVE subscribe_each(_, _, _)
\* "for channel in channels: manager.subscribe_to_channel(websocket, channel)"
subscribe_each(r, ws, channels) ==
    IF channels = <<>> THEN r
    ELSE subscribe_each(subscribe_to_channel(r, ws, Head(channels)), ws, Tail(channels))

RECURSIVE unsubscribe_each(_, _, _)
unsubscribe_each(r, ws, channels) ==
    IF channels = <<>> THEN r
    ELSE unsubscribe_each(unsubscribe_from_channel(r, ws, Head(channels)), ws,
                          Tail(channels))

\* _handle_subscribe, lines 569-579
handle_subscribe(r, al, ac, ws, m) ==
    Handled(subscribe_each(r, ws, m.channels), al, ac, m.fault = "payload",
            << Personal(ws, "subscription_confirmed", "") >>)

\* _handle_unsubscribe, lines 220-230
handle_unsubscribe(r, al, ac, ws, m) ==
    Handled(unsubscribe_each(r, ws, m.channels), al, ac, m.fault = "payload",
            << Personal(ws, "unsubscription_confirmed", "") >>)

\* "user_id = manager.ws_to_user.get(websocket); if not user_id: return":
\* None and 0 are falsy
no_user_id(r, ws) == ws \notin DOMAIN r.ws_to_user \/ r.ws_to_user[ws] = 0

\* transition that publishes although its commit raised
transition_publish_uncommitted(r, al, ac, ws, m, status, stamp, action, event) ==
    IF no_user_id(r, ws) THEN Handled(r, al, ac, FALSE, <<>>)
    ELSE IF m.fault = "query" THEN Handled(r, al, ac, TRUE, <<>>)
    ELSE IF m.alert_id \notin DOMAIN al THEN Handled(r, al, ac, FALSE, <<>>)
    ELSE Handled(r,
                 IF m.fault = "commit" THEN al
                 ELSE [al EXCEPT ![m.alert_id] =
                          [@ EXCEPT !.status = status, ![stamp] = {r.ws_to_user[ws]}]],
                 IF m.fault = "commit" THEN ac
                 ELSE Append(ac, [alert_id |-> m.alert_id, user_id |-> r.ws_to_user[ws],
                                  action |-> action]),
                 FALSE,
                 << Step("broadcast", "", NoWs, event, m.alert_id),
                    Personal(ws, "action_success", m.type) >>)

\* transition that sends the personal action_success before the broadcast
transition_success_first(r, al, ac, ws, m, status, stamp, action, event) ==
    IF no_user_id(r, ws) THEN Handled(r, al, ac, FALSE, <<>>)
    ELSE IF m.fault = "query" THEN Handled(r, al, ac, TRUE, <<>>)
    ELSE IF m.alert_id \notin DOMAIN al THEN Handled(r, al, ac, FALSE, <<>>)
    ELSE IF m.fault = "commit" THEN Handled(r, al, ac, TRUE, <<>>)
    ELSE Handled(r,
                 [al EXCEPT ![m.alert_id] =
                     [@ EXCEPT !.status = status, ![stamp] = {r.ws_to_user[ws]}]],
                 Append(ac, [alert_id |-> m.alert_id, user_id |-> r.ws_to_user[ws],
                             action |-> action]),
                 FALSE,
                 << Personal(ws, "action_success", m.type),
                    Step("broadcast", "", NoWs, event, m.alert_id) >>)

\* the alert update and the action log entry of a lifecycle handler, and the
\* deliveries after its commit
transition(r, al, ac, ws, m, status, stamp, action, event) ==
    IF no_user_id(r, ws) THEN Handled(r, al, ac, FALSE, <<>>)
    ELSE IF m.fault = "query" THEN Handled(r, al, ac, TRUE, <<>>)
    ELSE IF m.alert_id \notin DOMAIN al THEN Handled(r, al, ac, FALSE, <<>>)
    ELSE IF m.fault = "commit" THEN Handled(r, al, ac, TRUE, <<>>)
    ELSE Handled(r,
                 [al EXCEPT ![m.alert_id] =
                     [@ EXCEPT !.status = status, ![stamp] = {r.ws_to_user[ws]}]],
                 Append(ac, [alert_id |-> m.alert_id, user_id |-> r.ws_to_user[ws],
                             action |-> action]),
                 FALSE,
                 << Step("broadcast", "", NoWs, event, m.alert_id),
                    Personal(ws, "action_success", m.type) >>)

\* _handle_acknowledge_alert that writes the status an alert starts with
handle_acknowledge_alert_active(r, al, ac, ws, m) ==
    transition(r, al, ac, ws, m, "active", "acknowledged_by", "acknowledge",
               "alert_acknowledged")

\* _handle_resolve_alert that answers an unknown alert id with an error
handle_resolve_alert_not_found(r, al, ac, ws, m) ==
    IF ~no_user_id(r, ws) /\ m.fault # "query" /\ m.alert_id \notin DOMAIN al
    THEN Handled(r, al, ac, FALSE, << Personal(ws, "error", "Alert not found") >>)
    ELSE transition(r, al, ac, ws, m, "resolved", "resolved_by", "resolve",
                    "alert_resolved")

\* _handle_acknowledge_alert, lines 232-274
handle_acknowledge_alert(r, al, ac, ws, m) ==
    transition(r, al, ac, ws, m, "acknowledged", "acknowledged_by", "acknowledge",
               "alert_acknowledged")

\* _handle_resolve_alert, lines 276-321
handle_resolve_alert(r, al, ac, ws, m) ==
    transition(r, al, ac, ws, m, "resolved", "resolved_by", "resolve", "alert_resolved")

\* _handle_data_request, lines 323-335, with the _send_* method it calls:
\* _send_system_stats reads self.db.func, which a Session does not have, and
\* _send_analytics uses timedelta, which the module does not import
handle_data_request(r, al, ac, ws, m) ==
    CASE m.data_type \in {"sensor_data", "alerts"} ->
             Handled(r, al, ac, m.fault # "none",
                     << Personal(ws, m.data_type \o "_response", "") >>)
      [] m.data_type = "system_stats" -> Handled(r, al, ac, TRUE, <<>>)
      [] m.data_type = "analytics" -> Handled(r, al, ac, TRUE, <<>>)
      [] OTHER -> Handled(r, al, ac, FALSE, <<>>)

\* _handle_ping, lines 337-342
handle_ping(r, al, ac, ws, m) == Handled(r, al, ac, FALSE, << Personal(ws, "pong", "") >>)

\* the if / elif chain without its else branch: an unknown type is ignored
dispatch_unknown_ignored(r, al, ac, ws, m) ==
    CASE m.type = "subscribe"         -> handle_subscribe(r, al, ac, ws, m)
      [] m.type = "unsubscribe"       -> handle_unsubscribe(r, al, ac, ws, m)
      [] m.type = "acknowledge_alert" -> handle_acknowledge_alert(r, al, ac, ws, m)
      [] m.type = "resolve_alert"     -> handle_resolve_alert(r, al, ac, ws, m)
      [] m.type = "request_data"      -> handle_data_request(r, al, ac, ws, m)
      [] m.type = "ping"              -> handle_ping(r, al, ac, ws, m)
      [] OTHER -> Handled(r, al, ac, FALSE, <<>>)

\* the if / elif chain of handle_websocket_message, lines 196-213
dispatch(r, al, ac, ws, m) ==
    CASE m.type = "subscribe"         -> handle_subscribe(r, al, ac, ws, m)
      [] m.type = "unsubscribe"       -> handle_unsubscribe(r, al, ac, ws, m)
      [] m.type = "acknowledge_alert" -> handle_acknowledge_alert(r, al, ac, ws, m)
      [] m.type = "resolve_alert"     -> handle_resolve_alert(r, al, ac, ws, m)
      [] m.type = "request_data"      -> handle_data_request(r, al, ac, ws, m)
      [] m.type = "ping"              -> handle_ping(r, al, ac, ws, m)
      [] OTHER -> Handled(r, al, ac, FALSE,
                          << Personal(ws, "error", "Unknown message type: " \o m.type) >>)

\* handle_websocket_message whose except clause only logs
handle_websocket_message_logs_only(r, al, ac, ws, m) ==
    LET h == dispatch(r, al, ac, ws, m)
    IN  IF h.raised THEN [h EXCEPT !.rest = <<>>] ELSE h

\* handle_websocket_message, lines 191-218: the except clause replaces the
\* deliveries of a handler that raised by the "Internal server error" reply
handle_websocket_message(r, al, ac, ws, m) ==
    LET h == dispatch(r, al, ac, ws, m)
    IN  IF h.raised
        THEN [h EXCEPT !.rest = << Personal(ws, "error", "Internal server error") >>]
        ELSE h

\* the endpoint hands a decoded message of ws to handle_websocket_message, which
\* runs to its first await or to its return
Handle(t, ws, m) ==
    \E h \in {handle_websocket_message(reg, alerts, actions, ws, m)} :
        /\ CanStart(t)
        /\ Len(h.actions) <= MaxActions
        /\ SetReg(h.reg)
        /\ alerts' = h.alerts
        /\ actions' = h.actions
        /\ Proceed(t, h.reg, NewCall(m.type, ws, m.alert_id, h.rest), task[t])
        /\ UNCHANGED <<accepted, stalled>>

\* observer: the calls of the coroutines in began begin in this step, each with
\* every websocket steady; a websocket is dropped once a step changes what the
\* registry records about it
Watch(began) ==
    /\ steady' = [t \in Tasks |->
                     {ws \in (IF t \in began THEN Conns ELSE steady[t]) :
                          Membership(reg', ws) = Membership(reg, ws)}]
    /\ UNCHANGED <<lastOp, pre>>

\* a registry call from outside any publisher or handler
Outside == UNCHANGED <<call, alerts, actions>>

\* connect has registered the websockets of S, ws as the user and role id[ws];
\* no call is running
Registered(S, id) ==
    /\ accepted = S
    /\ active_connections = ConnectAll(EmptyRegistry, S, id).active_connections
    /\ role_connections = ConnectAll(EmptyRegistry, S, id).role_connections
    /\ ws_to_user = ConnectAll(EmptyRegistry, S, id).ws_to_user
    /\ ws_to_role = ConnectAll(EmptyRegistry, S, id).ws_to_role
    /\ channel_subscriptions = EmptyDict
    /\ task = [t \in Tasks |-> IdleTask]
    /\ stalled = {}
    /\ lastOp = [op |-> "init", ws |-> NoWs, channel |-> "", twice |-> FALSE]
    /\ pre = EmptyRegistry
    /\ call = [t \in Tasks |-> NoCall]
    /\ actions = <<>>
    /\ steady = [t \in Tasks |-> {}]

\* send_to_channel never reads the role of a connection
InitSensor ==
    /\ \E S \in SUBSET Conns : \E id \in [S -> Users \X {"viewer"}] : Registered(S, id)
    /\ alerts = EmptyDict

\* broadcast_sensor_update, with connections that subscribe, unsubscribe and close
NextSensor ==
    \/ \E ws \in Conns : Disconnect(ws) /\ Outside /\ Watch({})
    \/ \E ws \in accepted, ch \in Channels : Subscribe(ws, ch) /\ Outside /\ Watch({})
    \/ \E ws \in accepted, ch \in Channels : Unsubscribe(ws, ch) /\ Outside /\ Watch({})
    \/ \E t \in Tasks, i \in Sensors : PublishSensorUpdate(t, i) /\ Watch({t})
    \/ \E t \in Tasks, ok \in BOOLEAN : Continue(t, ok) /\ Watch({})

SpecSensor == InitSensor /\ [][NextSensor]_vars

InitAlert ==
    /\ \E S \in SUBSET Conns : \E id \in [S -> Users \X Roles] : Registered(S, id)
    /\ alerts \in [AlertIds -> {NewAlert("active")}]

\* broadcast_new_alert, with connections that close
NextAlert ==
    \/ \E ws \in Conns : Disconnect(ws) /\ Outside /\ Watch({})
    \/ \E t \in Tasks, a \in AlertIds, cat \in Categories :
           PublishNewAlert(t, a, cat) /\ Watch({t})
    \/ \E t \in Tasks, ok \in BOOLEAN : Continue(t, ok) /\ Watch({})

SpecAlert == InitAlert /\ [][NextAlert]_vars

\* the lifecycle handlers never read the role of a connection
InitLifecycle ==
    /\ \E S \in SUBSET Conns : \E id \in [S -> Users \X {"viewer"}] : Registered(S, id)
    /\ alerts \in [AlertIds -> {NewAlert("active"), NewAlert("dismissed")}]

\* the alert lifecycle commands, from connections that may close
NextLifecycle ==
    \/ \E ws \in Conns : Disconnect(ws) /\ Outside /\ Watch({})
    \/ \E t \in Tasks, ws \in accepted, m \in LifecycleMessages :
           Handle(t, ws, m) /\ Watch({t})
    \/ \E t \in Tasks, ok \in BOOLEAN : Continue(t, ok) /\ Watch({})

SpecLifecycle == InitLifecycle /\ [][NextLifecycle]_vars

\* every inbound message but the lifecycle commands that meet no fault (those
\* are SpecLifecycle's)
DispatchMessages == Messages \ {lm \in LifecycleMessages : lm.fault = "none"}

\* the dispatcher never reads the role of a connection
InitDispatch ==
    /\ \E S \in SUBSET Conns : \E id \in [S -> Users \X {"viewer"}] : Registered(S, id)
    /\ alerts \in [AlertIds -> {NewAlert("active")}]

\* the dispatcher, with connections that close
NextDispatch ==
    \/ \E ws \in Conns : Disconnect(ws) /\ Outside /\ Watch({})
    \/ \E t \in Tasks, ws \in accepted, m \in DispatchMessages :
           Handle(t, ws, m) /\ Watch({t})
    \/ \E t \in Tasks, ok \in BOOLEAN : Continue(t, ok) /\ Watch({})

SpecDispatch == InitDispatch /\ [][NextDispatch]_vars

(* -------------------------------- C1 ----------------------------------- *)
\* C1: immediately after disconnect(c), c is a member of no by-user set, no
\* by-role set and no topic subscriber set.
C1_AbsentAfterDisconnect ==
    lastOp.op = "disconnect" => InNoIndex(reg, lastOp.ws)

(* -------------------------------- C2 ----------------------------------- *)
\* C2: in every reachable state, c is in the by-user set of u exactly when the
\* mapping records c -> u, and in the by-role set of r exactly when it records
\* c -> r.
C2_IndexesConsistent == IndexesConsistent(reg)

(* -------------------------------- C3 ----------------------------------- *)
\* C3: when a fan-out delivery to two or more websockets returns from a registry
\* whose indexes agree and the send to exactly one websocket of its copy failed, every other websocket of the copy has received the event,
\* the failing one is absent from the registry, and what the registry records
\* about every other connection is what it recorded before the clean-up.
C3_OneFailureIsolated ==
    [][\A t \in Tasks :
          (/\ Returns(t)
           /\ task'[t].kind \in FanOut
           /\ Cardinality(task'[t].snap) >= 2
           /\ Cardinality(task'[t].failed) = 1
           /\ IndexesConsistent(reg))
          => /\ task'[t].delivered = task'[t].snap \ task'[t].failed
             /\ \A ws \in task'[t].failed : InNoIndex(reg', ws) /\ Unregistered(reg', ws)
             /\ \A ws \in Conns \ task'[t].failed : Membership(reg', ws) = Membership(reg, ws)
      ]_vars

(* -------------------------------- C4 ----------------------------------- *)
\* C4: whatever other coroutines did to the registry while a fan-out delivery
\* was suspended, when it returns it has attempted exactly one send to every
\* websocket of its copy, its clean-up has changed nothing about the connections
\* whose send did not fail, and the index invariant (C2) that held before its
\* last step holds when it returns.
C4_SnapshotIteration ==
    [][\A t \in Tasks :
          (Returns(t) /\ task'[t].kind \in FanOut)
          => /\ \A ws \in Conns :
                    task'[t].attempts[ws] = IF ws \in task'[t].snap THEN 1 ELSE 0
             /\ \A ws \in Conns \ task'[t].failed : Membership(reg', ws) = Membership(reg, ws)
             /\ IndexesConsistent(reg) => IndexesConsistent(reg')
      ]_vars

(* -------------------------------- C5 ----------------------------------- *)
\* C5: in a broadcast suspended in a send, every websocket of the copy still to
\* be visited whose peer keeps reading eventually has its own send completed.
C5_StalledPeerDoesNotBlock ==
    \A t \in Tasks, ws \in Conns :
        (task[t].pc = "sending" /\ ws \in task[t].pending /\ ws \notin stalled)
        ~> (ws \in task[t].delivered \cup task[t].failed \/ ws \in stalled)

(* -------------------------------- C6 ----------------------------------- *)
\* C6: no topic is present in the topic index with an empty subscriber set.
C6_NoEmptyTopic ==
    \A ch \in DOMAIN channel_subscriptions : channel_subscriptions[ch] # {}

(* -------------------------------- C7 ----------------------------------- *)
\* C7: disconnect of a connection the registry does not hold leaves every index
\* and mapping unchanged, and disconnect(c) twice yields the registry that
\* disconnect(c) once yields.
C7_DisconnectIdempotent ==
    /\ \A ws \in Conns : disconnect(disconnect(reg, ws), ws) = disconnect(reg, ws)
    /\ \A ws \in Conns : Unregistered(reg, ws) => disconnect(reg, ws) = reg
    /\ (lastOp.op = "disconnect" /\ Unregistered(pre, lastOp.ws)) => reg = pre

\* disconnect was called for a connection that had been accepted and was already
\* unregistered, while another connection was registered and subscribed
C7_Witness ==
    /\ lastOp.op = "disconnect"
    /\ lastOp.ws \in accepted
    /\ Unregistered(pre, lastOp.ws)
    /\ \E ws \in Conns \ {lastOp.ws} :
           ws \in DOMAIN ws_to_user /\ ChannelsOf(reg, ws) # {}

(* -------------------------------- C8 ----------------------------------- *)
\* C8: connect of a websocket that is already registered does not change the
\* registry, and no websocket is ever in the index sets of two users or of two
\* roles.
C8_ReconnectRejected ==
    /\ (lastOp.op = "connect" /\ lastOp.ws \in DOMAIN pre.ws_to_user) => reg = pre
    /\ \A ws \in Conns :
           Cardinality(UsersOf(reg, ws)) <= 1 /\ Cardinality(RolesOf(reg, ws)) <= 1

(* -------------------------------- C9 ----------------------------------- *)
\* C9: subscribing c to T twice and unsubscribing once leaves c out of T's
\* subscriber set, the set a later send_to_channel(T) copies.
C9_NotReferenceCounted ==
    /\ \A ws \in Conns, ch \in Channels :
           LET r2 == subscribe_to_channel(subscribe_to_channel(reg, ws, ch), ws, ch)
           IN  ws \notin snapshot_channel(unsubscribe_from_channel(r2, ws, ch), ch)
    /\ (lastOp.op = "unsubscribe" /\ lastOp.twice)
           => lastOp.ws \notin snapshot_channel(reg, lastOp.channel)

\* c was subscribed to T while already subscribed and then unsubscribed, with
\* another subscriber of T remaining
C9_Witness ==
    /\ lastOp.op = "unsubscribe"
    /\ lastOp.twice
    /\ lastOp.ws \in snapshot_channel(pre, lastOp.channel)
    /\ snapshot_channel(reg, lastOp.channel) # {}

(* -------------------------------- C10 ---------------------------------- *)
\* C10: unsubscribe_from_channel(c, T) with c not subscribed to T leaves the
\* by-user index, the by-role index and the whole topic index unchanged.
C10_UnsubscribeNoOp ==
    (lastOp.op = "unsubscribe" /\ lastOp.ws \notin snapshot_channel(pre, lastOp.channel))
        => reg = pre

(* -------------------------------- C11 ---------------------------------- *)
\* the connections the registry records as registered that a selector addresses
LiveOfUser(r, user_id) == {ws \in DOMAIN r.ws_to_user : r.ws_to_user[ws] = user_id}

LiveOfRole(r, role) == {ws \in DOMAIN r.ws_to_role : r.ws_to_role[ws] = role}

\* the delivery task t has begun in this step returns at once, having sent nothing
\* and changed nothing in the registry
NoSends(t) ==
    /\ task'[t].pc = "done"
    /\ task'[t].attempts = NoAttempts
    /\ reg' = reg

\* C11: a delivery whose selector matches no registered connection (broadcast
\* with none registered, a user id or a role no registered connection has, a
\* topic no websocket is subscribed to) performs no send, returns
\* normally and leaves the registry unchanged.
C11_NoMatchNoOp ==
    [][\A t \in Tasks :
          /\ (Broadcast(t) /\ DOMAIN ws_to_user = {}) => NoSends(t)
          /\ \A u \in Users : (SendToUser(t, u) /\ LiveOfUser(reg, u) = {}) => NoSends(t)
          /\ \A r \in Roles : (SendToRole(t, r) /\ LiveOfRole(reg, r) = {}) => NoSends(t)
          /\ \A ch \in Channels :
                 (SendToChannel(t, ch) /\ \A ws \in Conns : ch \notin ChannelsOf(reg, ws))
                     => NoSends(t)
      ]_vars


(* -------------------------------- C12 ---------------------------------- *)
RECURSIVE SentTo(_, _)
\* the sends of a call awaited for ws, in order
SentTo(out, ws) ==
    IF out = <<>> THEN <<>>
    ELSE IF Head(out).ws = ws THEN <<Head(out)>> \o SentTo(Tail(out), ws)
         ELSE SentTo(Tail(out), ws)

\* the sends of the finished call of t to ws were n, each of a message of the
\* given type, and each completed
Received(t, ws, n, type) ==
    /\ Len(SentTo(call[t].out, ws)) = n
    /\ \A k \in 1..Len(SentTo(call[t].out, ws)) :
           /\ SentTo(call[t].out, ws)[k].msg.type = type
           /\ SentTo(call[t].out, ws)[k].ok = "ok"

Finished(t, name) == call[t].pc = "done" /\ call[t].name = name

\* C12: when broadcast_sensor_update for sensor i has returned, a registered
\* connection that was subscribed to "sensor_<i>" and to nothing else throughout
\* has received exactly one sensor_update, and a websocket subscribed throughout
\* to neither "sensor_updates" nor "sensor_<i>" has been sent nothing.
C12_SensorOptIn ==
    \A t \in Tasks, i \in Sensors :
        (Finished(t, "broadcast_sensor_update") /\ call[t].arg = ToString(i))
        => \A ws \in steady[t] :
               /\ (ws \in DOMAIN ws_to_user /\ ChannelsOf(reg, ws) = {sensor_channel(i)})
                      => Received(t, ws, 1, "sensor_update")
               /\ (ChannelsOf(reg, ws) \cap {"sensor_updates", sensor_channel(i)} = {})
                      => Received(t, ws, 0, "sensor_update")

\* an update of sensor 42 has been published while one connection was subscribed
\* to "sensor_42" only and another websocket to nothing
C12_Witness ==
    \E t \in Tasks, ws \in Conns, other \in Conns :
        /\ Finished(t, "broadcast_sensor_update")
        /\ call[t].arg = "42"
        /\ {ws, other} \subseteq steady[t]
        /\ ws \in DOMAIN ws_to_user
        /\ ChannelsOf(reg, ws) = {"sensor_42"}
        /\ Received(t, ws, 1, "sensor_update")
        /\ other \in DOMAIN ws_to_user
        /\ ChannelsOf(reg, other) = {}

\* an update of sensor 99 has been published while a connection was subscribed to
\* "sensor_42" only
C12_WitnessOtherSensor ==
    \E t \in Tasks, ws \in Conns :
        /\ Finished(t, "broadcast_sensor_update")
        /\ call[t].arg = "99"
        /\ ws \in steady[t] \cap DOMAIN ws_to_user
        /\ ChannelsOf(reg, ws) = {"sensor_42"}

(* -------------------------------- C13 ---------------------------------- *)
\* C13: when broadcast_new_alert for an alert of category "traffic" has
\* returned, every connection registered throughout has received new_alert at
\* least once, and one whose role is not "traffic_control" exactly once.
C13_NewAlertFanOut ==
    \A t \in Tasks :
        (Finished(t, "broadcast_new_alert") /\ call[t].arg = "traffic")
        => \A ws \in steady[t] \cap DOMAIN ws_to_user :
               /\ \E n \in 1..Len(call[t].out) : Received(t, ws, n, "new_alert")
               /\ ws_to_role[ws] # "traffic_control" => Received(t, ws, 1, "new_alert")

\* a traffic alert has been published to a "traffic_control" connection and a
\* "viewer" connection
C13_Witness ==
    \E t \in Tasks, ws \in Conns, other \in Conns :
        /\ Finished(t, "broadcast_new_alert")
        /\ call[t].arg = "traffic"
        /\ {ws, other} \subseteq steady[t] \cap DOMAIN ws_to_user
        /\ ws_to_role[ws] = "traffic_control"
        /\ ws_to_role[other] = "viewer"
        /\ Received(t, other, 1, "new_alert")


(* -------------------------------- C14 ---------------------------------- *)
\* a call for a message of m's type from ws begins on coroutine t in this step;
\* the step is handle_websocket_message taking up the message m of ws
Takes(t, ws, m) ==
    /\ call[t].pc # "running"
    /\ call'[t].pc # "idle"
    /\ call'[t].name = m.type
    /\ call'[t].origin = ws
    /\ call'[t].arg = m.alert_id

Handles(t, ws, m) == Takes(t, ws, m) /\ Handle(t, ws, m)

\* the messages of every send the call of t has awaited or has still to make
Emitted(c) == {c.out[k].msg.type : k \in 1..Len(c.out)}
                  \cup {c.rest[k].msg.type : k \in 1..Len(c.rest)}

\* C14: acknowledge_alert from a registered connection for an alert whose status
\* is resolved leaves the alert as it is, appends no action record and emits no
\* alert_acknowledged.
C14_AckResolvedNoOp ==
    [][\A t \in Tasks, ws \in Conns, m \in LifecycleMessages :
          (/\ m.type = "acknowledge_alert"
           /\ ws \in DOMAIN ws_to_user
           /\ m.alert_id \in DOMAIN alerts
           /\ alerts[m.alert_id].status = "resolved"
           /\ Handles(t, ws, m))
          => /\ alerts' = alerts
             /\ actions' = actions
             /\ "alert_acknowledged" \notin Emitted(call'[t])
      ]_vars

(* -------------------------------- C15 ---------------------------------- *)
\* C15: no acknowledge_alert or resolve_alert command gives an alert the status
\* active that did not have it: an alert that has reached resolved or dismissed
\* is never active again.
C15_NeverActiveAgain ==
    [][\A a \in DOMAIN alerts :
          alerts[a].status # "active" => (a \in DOMAIN alerts' /\ alerts'[a].status # "active")
      ]_vars

\* an alert that had been resolved has been acknowledged afterwards
C15_Witness ==
    \E a \in DOMAIN alerts :
        /\ alerts[a].resolved_by # {}
        /\ alerts[a].status = "acknowledged"
        /\ Len(actions) = MaxActions

(* -------------------------------- C16 ---------------------------------- *)
\* C16: acknowledge_alert from a registered connection, whatever its user id, for
\* an alert that is active, with storage working, sets the status acknowledged
\* with the connection's user as actor, appends exactly one action record and
\* sets out to broadcast alert_acknowledged and then to send action_success to
\* the sender; when the handler returns, every connection registered throughout
\* has received alert_acknowledged, and action_success was sent to the sender.
C16_AcknowledgeActive ==
    [][/\ \A t \in Tasks, ws \in Conns, m \in LifecycleMessages :
             (/\ m.type = "acknowledge_alert"
              /\ m.fault = "none"
              /\ ws \in DOMAIN ws_to_user
              /\ m.alert_id \in DOMAIN alerts
              /\ alerts[m.alert_id].status = "active"
              /\ Handles(t, ws, m))
             => /\ alerts'[m.alert_id].status = "acknowledged"
                /\ alerts'[m.alert_id].acknowledged_by = {ws_to_user[ws]}
                /\ actions' = Append(actions, [alert_id |-> m.alert_id,
                                               user_id |-> ws_to_user[ws],
                                               action |-> "acknowledge"])
                /\ call'[t].pc = "running"
                /\ call'[t].msg.type = "alert_acknowledged"
                /\ task'[t].snap = DOMAIN ws_to_user
                /\ call'[t].rest = << Personal(ws, "action_success", m.type) >>
       /\ \A t \in Tasks :
             (/\ call[t].pc = "running"
              /\ call[t].name = "acknowledge_alert"
              /\ call[t].out[1].msg.type = "alert_acknowledged"
              /\ call'[t].pc = "done"
              /\ Continue(t, TRUE) \/ Continue(t, FALSE))
             => /\ \A w \in steady'[t] \cap DOMAIN ws_to_user' :
                       \E k \in 1..Len(call'[t].out) :
                           /\ call'[t].out[k] =
                                  [ws |-> w, ok |-> "ok",
                                   msg |-> [type |-> "alert_acknowledged",
                                            text |-> call'[t].arg]]
                /\ call'[t].out[Len(call'[t].out)].ws = call'[t].origin
                /\ call'[t].out[Len(call'[t].out)].msg.type = "action_success"
      ]_vars

(* -------------------------------- C17 ---------------------------------- *)
\* C17: acknowledge_alert or resolve_alert whose query finds no alert of the
\* given id changes no alert and no action record, sends nothing to any
\* connection and leaves the registry unchanged.
C17_UnknownAlertSilent ==
    [][\A t \in Tasks, ws \in Conns, m \in LifecycleMessages :
          (/\ m.fault # "query"
           /\ m.alert_id \notin DOMAIN alerts
           /\ Handles(t, ws, m))
          => /\ alerts' = alerts
             /\ actions' = actions
             /\ reg' = reg
             /\ task' = task
             /\ call'[t].pc = "done"
             /\ call'[t].out = <<>>
      ]_vars

\* a registered connection with a user id the handlers accept has named an
\* unknown alert, with other connections registered, and the handler has returned
C17_Witness ==
    \E t \in Tasks :
        /\ call[t].pc = "done"
        /\ call[t].name \in {"acknowledge_alert", "resolve_alert"}
        /\ call[t].arg = UnknownAlertId
        /\ call[t].origin \in DOMAIN ws_to_user
        /\ ~no_user_id(reg, call[t].origin)
        /\ call[t].out = <<>>
        /\ Cardinality(DOMAIN ws_to_user) = MaxConn


(* -------------------------------- C18 ---------------------------------- *)
\* the call of t has awaited one send and has none to make: of the message to ws
SendsOnly(c, ws, type, text) ==
    /\ c.rest = <<>>
    /\ Len(c.out) = 1
    /\ c.out[1].ws = ws
    /\ c.out[1].msg = [type |-> type, text |-> text]

\* C18: a message whose type is none of the six commands (a missing type
\* included) changes neither the registry nor the storage and makes the
\* dispatcher send one message, to the sender: an "error" that names the type;
\* once that send has completed, the registry is still unchanged and the
\* dispatcher has returned.
C18_UnknownTypeError ==
    [][/\ \A t \in Tasks, ws \in Conns, m \in Messages :
             (m.type \notin Commands /\ Handles(t, ws, m))
             => /\ reg' = reg
                /\ alerts' = alerts
                /\ actions' = actions
                /\ call'[t].pc = "running"
                /\ SendsOnly(call'[t], ws, "error", "Unknown message type: " \o m.type)
       /\ \A t \in Tasks :
             (call[t].name \notin Commands /\ Continue(t, TRUE))
             => /\ reg' = reg
                /\ call'[t].pc = "done"
                /\ SendsOnly(call'[t], call[t].origin, "error",
                             "Unknown message type: " \o call[t].name)
                /\ call'[t].out[1].ok = "ok"
      ]_vars

\* a registered and subscribed connection has sent a message without a type and
\* has received the error
C18_Witness ==
    \E t \in Tasks :
        /\ call[t].pc = "done"
        /\ call[t].name = "None"
        /\ call[t].out[1].ok = "ok"
        /\ call[t].origin \in DOMAIN ws_to_user
        /\ ChannelsOf(reg, call[t].origin) # {}

(* -------------------------------- C19 ---------------------------------- *)
\* C19: when the handler of a message raises, handle_websocket_message leaves
\* the storage and the registration of every connection as they are, takes no
\* subscription from the sender that the message did not ask to remove, and
\* sends one message, the "error" of its except clause, to the sender; once that
\* send has completed, the dispatcher has returned and the registry is unchanged.
C19_FaultCaught ==
    [][/\ \A t \in Tasks, ws \in Conns, m \in Messages :
             (/\ Takes(t, ws, m)
              /\ dispatch(reg, alerts, actions, ws, m).raised
              /\ Handle(t, ws, m))
             => /\ alerts' = alerts
                /\ actions' = actions
                /\ <<active_connections', role_connections', ws_to_user', ws_to_role'>>
                       = <<active_connections, role_connections, ws_to_user, ws_to_role>>
                /\ m.type # "unsubscribe" => ChannelsOf(reg, ws) \subseteq ChannelsOf(reg', ws)
                /\ call'[t].pc = "running"
                /\ SendsOnly(call'[t], ws, "error", "Internal server error")
       /\ \A t \in Tasks :
             (call[t].msg.text = "Internal server error" /\ Continue(t, TRUE))
             => /\ reg' = reg
                /\ call'[t].pc = "done"
                /\ SendsOnly(call'[t], call[t].origin, "error", "Internal server error")
      ]_vars

\* a registered and subscribed connection has sent a message whose handler
\* raised, and has received the error
C19_Witness ==
    \E t \in Tasks :
        /\ call[t].pc = "done"
        /\ call[t].name \in {"acknowledge_alert", "resolve_alert", "request_data"}
        /\ call[t].msg.text = "Internal server error"
        /\ call[t].out[1].ok = "ok"
        /\ call[t].origin \in DOMAIN ws_to_user
        /\ ChannelsOf(reg, call[t].origin) # {}

(* -------------------------------- C20 ---------------------------------- *)
\* C20: request_data whose data_type is missing or none of sensor_data, alerts,
\* system_stats and analytics makes the dispatcher send an "error" to the
\* sender, and changes nothing in the registry.
C20_UnknownDataTypeError ==
    [][\A t \in Tasks, ws \in Conns, m \in Messages :
          (m.type = "request_data" /\ m.data_type \notin DataTypes /\ Handles(t, ws, m))
          => /\ reg' = reg
             /\ Len(call'[t].out) = 1
             /\ call'[t].out[1].ws = ws
             /\ call'[t].out[1].msg.type = "error"
      ]_vars

(* -------------------------------- C21 ---------------------------------- *)
\* the keys of the dictionary literal the code builds for an outbound message of
\* each type (connect line 47; the handlers, the _send_* methods and the
\* publishers; the two "error" literals of handle_websocket_message)
envelope(type) ==
    CASE type = "connection_status" -> {"type", "status", "timestamp", "user_id", "role"}
      [] type \in {"subscription_confirmed", "unsubscription_confirmed"} ->
             {"type", "channels", "timestamp"}
      [] type = "alert_acknowledged" -> {"type", "alert_id", "acknowledged_by", "timestamp"}
      [] type = "alert_resolved" ->
             {"type", "alert_id", "resolved_by", "resolution", "timestamp"}
      [] type = "action_success" -> {"type", "action", "alert_id"}
      [] type = "error" -> {"type", "message"}
      [] type \in {"sensor_data_response", "alerts_response", "system_stats_response",
                   "analytics_response"} -> {"type", "data", "timestamp"}
      [] type = "pong" -> {"type", "timestamp"}
      [] type = "new_alert" -> {"type", "alert", "timestamp"}
      [] type = "sensor_update" ->
             {"type", "sensor_id", "metric_type", "value", "timestamp", "sensor_name"}
      [] type = "system_health" ->
             {"type", "status", "uptime", "active_sensors", "total_sensors",
              "active_alerts", "timestamp"}

\* C21: every message a publisher or handler call has handed to send_text
\* carries a "type" field and a "timestamp" field.
C21_Envelope ==
    \A t \in Tasks : \A k \in 1..Len(call[t].out) :
        {"type", "timestamp"} \subseteq envelope(call[t].out[k].msg.type)

(* -------------------------------- C22 ---------------------------------- *)
\* C22: request_data with data_type "analytics", with storage working, makes the
\* dispatcher send one message to the requester, an analytics_response (the
\* message that carries the hourly buckets).
C22_AnalyticsAnswered ==
    [][\A t \in Tasks, ws \in Conns, m \in Messages :
          (/\ m.type = "request_data"
           /\ m.data_type = "analytics"
           /\ m.fault = "none"
           /\ Handles(t, ws, m))
          => /\ Len(call'[t].out) = 1
             /\ call'[t].out[1].ws = ws
             /\ call'[t].out[1].msg.type = "analytics_response"
      ]_vars

(* -------------------------------- C23 ---------------------------------- *)
LifecycleEvents == {"alert_acknowledged", "alert_resolved"}

\* C23: a call awaits each send before it begins the next, so no send of a call
\* is under way while a later one is; and in the sends of an acknowledge_alert
\* or resolve_alert call every alert_acknowledged (alert_resolved) comes before
\* the action_success, which goes to the originating connection.
C23_CallOrder ==
    \A t \in Tasks :
        /\ \A k \in 1..(Len(call[t].out) - 1) : call[t].out[k].ok # "pending"
        /\ \A i, j \in 1..Len(call[t].out) :
               (/\ call[t].out[i].msg.type \in LifecycleEvents
                /\ call[t].out[j].msg.type = "action_success")
               => i < j /\ call[t].out[j].ws = call[t].origin

\* an acknowledge_alert has returned: its sender has received alert_acknowledged
\* and then action_success, and another connection alert_acknowledged
C23_Witness ==
    \E t \in Tasks, other \in Conns :
        /\ Finished(t, "acknowledge_alert")
        /\ other # call[t].origin
        /\ Len(SentTo(call[t].out, call[t].origin)) = 2
        /\ SentTo(call[t].out, call[t].origin)[1].msg.type = "alert_acknowledged"
        /\ SentTo(call[t].out, call[t].origin)[2].msg.type = "action_success"
        /\ \A k \in 1..2 : SentTo(call[t].out, call[t].origin)[k].ok = "ok"
        /\ Received(t, other, 1, "alert_acknowledged")

(* -------------------------------- C24 ---------------------------------- *)
\* C24: when a delivery (personal, to a user, to a role, to a channel or a
\* broadcast) returns, it has attempted one send to every websocket of its copy,
\* failed sends included, and every websocket whose send failed is in no index
\* and no mapping of the registry.
C24_FailuresUnregistered ==
    [][\A t \in Tasks :
          Returns(t)
          => /\ task'[t].kind \in FanOut \cup {"personal"}
             /\ \A ws \in Conns :
                    task'[t].attempts[ws] = IF ws \in task'[t].snap THEN 1 ELSE 0
             /\ task'[t].delivered \cup task'[t].failed = task'[t].snap
             /\ \A ws \in task'[t].failed : InNoIndex(reg', ws) /\ Unregistered(reg', ws)
      ]_vars

(* -------------------------------- C25 ---------------------------------- *)
(* The publishers run on the coroutines Tasks; handle_websocket_message is    *)
(* awaited by the receive loop of a connection, one more coroutine, which     *)
(* runs while a publisher is suspended in a send.                             *)
Endpoint == MaxTask + 1

Loops == Tasks \cup {Endpoint}

Topic == sensor_channel(42)

TopicMessages ==
    {Msg(ty, <<Topic>>, "", "", "none") : ty \in {"subscribe", "unsubscribe"}}

Unobserved == UNCHANGED <<lastOp, pre, steady>>

InitUnsubscribe ==
    /\ \E S \in SUBSET Conns : \E id \in [S -> Users \X {"viewer"}] :
           /\ accepted = S
           /\ active_connections = ConnectAll(EmptyRegistry, S, id).active_connections
           /\ role_connections = ConnectAll(EmptyRegistry, S, id).role_connections
           /\ ws_to_user = ConnectAll(EmptyRegistry, S, id).ws_to_user
           /\ ws_to_role = ConnectAll(EmptyRegistry, S, id).ws_to_role
    /\ channel_subscriptions = EmptyDict
    /\ task = [t \in Loops |-> IdleTask]
    /\ call = [t \in Loops |-> NoCall]
    /\ stalled = {}
    /\ lastOp = [op |-> "init", ws |-> NoWs, channel |-> "", twice |-> FALSE]
    /\ pre = EmptyRegistry
    /\ alerts = EmptyDict
    /\ actions = <<>>
    /\ steady = [t \in Tasks |-> {}]

\* broadcast_sensor_update interleaved with the handling of subscribe and
\* unsubscribe messages for the sensor's topic
NextUnsubscribe ==
    \/ \E ws \in accepted, m \in TopicMessages : Handle(Endpoint, ws, m) /\ Unobserved
    \/ \E t \in Tasks : PublishSensorUpdate(t, 42) /\ Unobserved
    \/ \E t \in Loops, ok \in BOOLEAN : Continue(t, ok) /\ Unobserved

SpecUnsubscribe == InitUnsubscribe /\ [][NextUnsubscribe]_vars

\* C25: once the unsubscribe of a registered connection ws from topic T has been
\* handled and its unsubscription_confirmed sent, and no message has been handled
\* since, no delivery through T begins a send to ws unless ws is subscribed to T.
C25_OnlyWhileSubscribed ==
    [][\A p \in Tasks, ws \in Conns :
          (/\ Finished(Endpoint, "unsubscribe")
           /\ call[Endpoint].origin = ws
           /\ ws \in DOMAIN ws_to_user
           /\ Len(call[Endpoint].out) = 1
           /\ call[Endpoint].out[1].ok = "ok"
           /\ call[p].pc = "running"
           /\ call[p].name = "broadcast_sensor_update"
           /\ task[p].cur # ws
           /\ task'[p].pc = "sending"
           /\ task'[p].kind = "channel"
           /\ task'[p].cur = ws
           /\ call'[p].rest = <<>>
           /\ Continue(p, TRUE) \/ Continue(p, FALSE))
          => ws \in snapshot_channel(reg, Topic)
      ]_vars

(* -------------------------------- C26 ---------------------------------- *)
\* C26: one call of broadcast_new_alert or of broadcast_sensor_update hands at
\* most one message to send_text for any one websocket.
C26_AtMostOnce ==
    \A t \in Tasks :
        call[t].name \in {"broadcast_new_alert", "broadcast_sensor_update"}
        => \A ws \in Conns : Len(SentTo(call[t].out, ws)) <= 1

(* -------------------------------- C27 ---------------------------------- *)
\* C27: every websocket in a topic's subscriber set is registered: it is in a
\* by-user set and in a by-role set, and both mappings record it.
C27_SubscribersLive ==
    \A ch \in DOMAIN channel_subscriptions : \A ws \in channel_subscriptions[ch] :
        /\ UsersOf(reg, ws) # {}
        /\ RolesOf(reg, ws) # {}
        /\ ws \in DOMAIN ws_to_user \cap DOMAIN ws_to_role

(* -------------------------------- C28 ---------------------------------- *)
\* {key: len(value) for key, value in d.items()}
sizes(d) == [k \in DOMAIN d |-> Cardinality(d[k])]

RECURSIVE Sum(_, _)
\* sum(f[k] for k in K)
Sum(f, K) ==
    IF K = {} THEN 0
    ELSE LET k == CHOOSE x \in K : TRUE IN f[k] + Sum(f, K \ {k})

\* get_connection_stats, lines 168-182
get_connection_stats(r) ==
    [total_connections     |-> Sum(sizes(r.active_connections), DOMAIN r.active_connections),
     users_online          |-> Cardinality(DOMAIN r.active_connections),
     connections_by_role   |-> sizes(r.role_connections),
     channel_subscriptions |-> sizes(r.channel_subscriptions)]

\* C28: in every state total_connections is the number of registered
\* connections and the sum of the per-role counts, users_online is the number
\* of distinct user ids of registered connections, and no per-role or per-topic
\* count is zero.
C28_StatsConsistent ==
    LET stats == get_connection_stats(reg)
    IN  /\ stats.total_connections = Cardinality(DOMAIN ws_to_user)
        /\ stats.total_connections =
               Sum(stats.connections_by_role, DOMAIN stats.connections_by_role)
        /\ stats.users_online = Cardinality({ws_to_user[ws] : ws \in DOMAIN ws_to_user})
        /\ \A x \in DOMAIN stats.connections_by_role : stats.connections_by_role[x] # 0
        /\ \A ch \in DOMAIN stats.channel_subscriptions :
               stats.channel_subscriptions[ch] # 0

(* -------------------------------- C29 ---------------------------------- *)
\* C29: a lifecycle handler that sets out to send alert_acknowledged,
\* alert_resolved or action_success has, in the same uninterrupted run and before
\* its first send, committed the alert's new status and one action record; and
\* when its commit raises, storage is unchanged and the only message of the call
\* is the "Internal server error" reply to the sender.
C29_PublishAfterCommit ==
    [][\A t \in Tasks, ws \in Conns, m \in LifecycleMessages :
          Handles(t, ws, m)
          => /\ (Emitted(call'[t]) \cap (LifecycleEvents \cup {"action_success"}) # {})
                 => /\ m.alert_id \in DOMAIN alerts'
                    /\ alerts'[m.alert_id].status =
                           (IF m.type = "acknowledge_alert" THEN "acknowledged"
                                                           ELSE "resolved")
                    /\ actions' = Append(actions,
                                         [alert_id |-> m.alert_id,
                                          user_id |-> ws_to_user[ws],
                                          action |-> IF m.type = "acknowledge_alert"
                                                     THEN "acknowledge" ELSE "resolve"])
             /\ (m.fault = "commit" /\ ~no_user_id(reg, ws) /\ m.alert_id \in DOMAIN alerts)
                 => /\ alerts' = alerts
                    /\ actions' = actions
                    /\ SendsOnly(call'[t], ws, "error", "Internal server error")
      ]_vars

\* a resolve_alert has returned: the alert is resolved in storage, its action
\* record is the last one, and alert_resolved has reached a connection
C29_Witness ==
    \E t \in Tasks :
        /\ Finished(t, "resolve_alert")
        /\ call[t].arg \in DOMAIN alerts
        /\ alerts[call[t].arg].status = "resolved"
        /\ actions # <<>>
        /\ actions[Len(actions)].action = "resolve"
        /\ \E k \in 1..Len(call[t].out) :
               call[t].out[k].msg.type = "alert_resolved" /\ call[t].out[k].ok = "ok"

=============================================================================
